---- MODULE Spec2Model ----
(***************************************************************************)
(* A model of orbitx/common.py: load_savefile and write_savefile, the file *)
(* system they act on, and the two decoders they delegate to.              *)
(*                                                                         *)
(* A file name is a sequence of one-character strings, so that             *)
(* pathlib's suffix rule and str.lower() are computed character by         *)
(* character.  A path is a (parent, name) pair.  The file system maps the  *)
(* paths of the files that exist to their content.                         *)
(***************************************************************************)
EXTENDS Integers, Sequences, FiniteSets, TLC

(***************************************************************************)
(* Bounds of the model.                                                    *)
(***************************************************************************)
\* The longest entity list a snapshot carries.
MaxEntities == 1
\* The number of pieces (stems and dotted extensions) a generated file name
\* is made of, at most.
MaxNameParts == 2

(***************************************************************************)
(* Constants of common.py.                                                 *)
(***************************************************************************)
HABITAT == "Habitat"
AYSE == "AYSE"
SUN == "Sun"
EARTH == "Earth"

\* The value field of every element of TIME_ACCS.
TIME_ACCS == {0, 1, 5, 10, 50, 100, 1000, 10000, 100000}

DEFAULT_REFERENCE == EARTH
DEFAULT_TARGET == AYSE

SRB_FULL == -1
SRB_EMPTY == -2
SRB_BURNTIME == 120

(***************************************************************************)
(* Characters, names and paths (pathlib.PurePath).                         *)
(***************************************************************************)
Dot == "."

\* str.lower() on one character.
LowerChar(c) ==
    CASE c = "J" -> "j"
      [] c = "S" -> "s"
      [] c = "O" -> "o"
      [] c = "N" -> "n"
      [] c = "R" -> "r"
      [] c = "D" -> "d"
      [] OTHER -> c

\* str.lower().
Lower(s) == [i \in 1..Len(s) |-> LowerChar(s[i])]

\* str.rfind('.'), counted from 1; 0 when there is no dot.
RFindDot(s) ==
    LET dots == {i \in 1..Len(s) : s[i] = Dot}
    IN  IF dots = {} THEN 0 ELSE CHOOSE i \in dots : \A j \in dots : j <= i

\* PurePath.suffix: the last dotted part of the name, empty when the only dot
\* leads or ends the name.
Suffix(p) ==
    LET i == RFindDot(p.name)
    IN  IF 1 < i /\ i < Len(p.name)
        THEN SubSeq(p.name, i, Len(p.name))
        ELSE <<>>

JSON_SUFFIX == <<".", "j", "s", "o", "n">>
RND_SUFFIX == <<".", "r", "n", "d">>

\* A variant of AppendJson that replaces the suffix, as file.with_suffix does.
ReplaceSuffix(p) ==
    [parent |-> p.parent,
     name |-> SubSeq(p.name, 1, Len(p.name) - Len(Suffix(p))) \o JSON_SUFFIX]

\* file.parent / (file.name + '.json')
AppendJson(p) == [parent |-> p.parent, name |-> p.name \o JSON_SUFFIX]

\* Lines 187-189 of write_savefile: the path that is written.
EnsureJsonSuffix(p) ==
    IF Lower(Suffix(p)) # JSON_SUFFIX THEN AppendJson(p) ELSE p

\* A variant of IsLegacyPath that sends every path but a .json one to the
\* legacy decoder.
IsNotJsonPath(p) == Lower(Suffix(p)) # JSON_SUFFIX

\* The test of line 157.
IsLegacyPath(p) == Lower(Suffix(p)) = RND_SUFFIX

\* The test of line 162.
IsUnknownExtension(p) == Lower(Suffix(p)) # JSON_SUFFIX

(***************************************************************************)
(* The physics state and its two on-disk dialects.                         *)
(***************************************************************************)
RECURSIVE SeqsUpTo(_, _)
SeqsUpTo(S, n) ==
    IF n = 0 THEN {<<>>}
    ELSE LET shorter == SeqsUpTo(S, n - 1)
         IN  shorter \cup {Append(s, x) : s \in shorter, x \in S}

EntityLists == SeqsUpTo({HABITAT}, MaxEntities)

\* data_structures.PhysicsState, as far as common.py reads and writes it.
PhysicsStates ==
    [time_acc : TIME_ACCS,
     reference : {"", EARTH, SUN},
     target : {"", AYSE, HABITAT},
     srb_time : {0, SRB_FULL, SRB_EMPTY, SRB_BURNTIME},
     entities : EntityLists]

NoState == [kind |-> "none"]

\* The fields of protos.PhysicalState and their proto3 default values.
ProtoDefaults ==
    [time_acc |-> 0, reference |-> "", target |-> "", srb_time |-> 0,
     entities |-> <<>>]

\* json_format.MessageToJson(state.as_proto()): a JSON object that holds the
\* fields whose value is not the proto3 default, and leaves the others out.
MessageToJson(s) ==
    [kind |-> "json",
     body |-> [k \in {f \in DOMAIN ProtoDefaults : s[f] # ProtoDefaults[f]}
                 |-> s[k]]]

\* File contents that are no document of either dialect.
EmptyText == [kind |-> "empty"]
Garbage == [kind |-> "garbage"]

\* A legacy .rnd file (with its STARSr companion) that decodes to s.
RndFile(s) == [kind |-> "rnd", body |-> s]

Ok(v) == [kind |-> "returned", value |-> v]
Raised(e) == [kind |-> "raised", error |-> e]
NoOutcome == [kind |-> "none"]

\* json_format.Parse(data, read_state) followed by PhysicsState(None,
\* read_state): a field the document leaves out takes its proto3 default.
Parse(text) ==
    IF text.kind # "json" THEN Raised("ParseError")
    ELSE Ok([k \in DOMAIN ProtoDefaults |->
               IF k \in DOMAIN text.body THEN text.body[k]
               ELSE ProtoDefaults[k]])

\* orbitv_file_interface.clone_orbitv_state(file).
clone_orbitv_state(files, p) ==
    IF p \notin DOMAIN files THEN Raised("FileNotFoundError")
    ELSE IF files[p].kind # "rnd" THEN Raised("LegacyFormatError")
    ELSE Ok(files[p].body)

\* A variant of Canonicalize that fills the target with the default of the
\* reference.
CanonicalizeSwappedDefault(s) ==
    [s EXCEPT
       !.time_acc = IF s.time_acc = 0 THEN 1 ELSE @,
       !.reference = IF s.reference = "" THEN DEFAULT_REFERENCE ELSE @,
       !.target = IF s.target = "" THEN DEFAULT_REFERENCE ELSE @,
       !.srb_time = IF s.srb_time = 0 THEN SRB_FULL ELSE @]

\* A variant of Canonicalize that takes every timer below 1 for unset.
CanonicalizeNegativeTimer(s) ==
    [s EXCEPT
       !.time_acc = IF s.time_acc = 0 THEN 1 ELSE @,
       !.reference = IF s.reference = "" THEN DEFAULT_REFERENCE ELSE @,
       !.target = IF s.target = "" THEN DEFAULT_TARGET ELSE @,
       !.srb_time = IF s.srb_time <= 0 THEN SRB_FULL ELSE @]

\* A variant of Canonicalize that fills the target from the reference, read
\* before the reference is repaired.
CanonicalizeTargetFromReference(s) ==
    [s EXCEPT
       !.time_acc = IF s.time_acc = 0 THEN 1 ELSE @,
       !.reference = IF s.reference = "" THEN DEFAULT_REFERENCE ELSE @,
       !.target = IF s.target = "" THEN s.reference ELSE @,
       !.srb_time = IF s.srb_time = 0 THEN SRB_FULL ELSE @]

\* Lines 172-179 of load_savefile: the repair of the four scalar fields.
Canonicalize(s) ==
    [s EXCEPT
       !.time_acc = IF s.time_acc = 0 THEN 1 ELSE @,
       !.reference = IF s.reference = "" THEN DEFAULT_REFERENCE ELSE @,
       !.target = IF s.target = "" THEN DEFAULT_TARGET ELSE @,
       !.srb_time = IF s.srb_time = 0 THEN SRB_FULL ELSE @]

(***************************************************************************)
(* The inputs of the three specifications.                                 *)
(***************************************************************************)
Stem == <<"a">>

Here(name) == [parent |-> ".", name |-> name]

NoPath == [parent |-> "", name |-> <<>>]

\* The paths the callers of Spec pass: no name at all (Path('.')), no
\* extension, the canonical extension, the legacy extension, and the two
\* paths write_savefile returns for the first and the last of these.
MainPaths ==
    {Here(<<>>), Here(Stem), Here(Stem \o JSON_SUFFIX), Here(Stem \o RND_SUFFIX),
     Here(JSON_SUFFIX), Here(Stem \o RND_SUFFIX \o JSON_SUFFIX)}

\* A state with no field unset, and one with every field unset.
FlownState ==
    [time_acc |-> 50, reference |-> EARTH, target |-> AYSE,
     srb_time |-> SRB_EMPTY, entities |-> <<HABITAT>>]
BlankState ==
    [time_acc |-> 0, reference |-> "", target |-> "", srb_time |-> 0,
     entities |-> <<>>]
MainStates == {FlownState, BlankState}

OneFile(p, text) == [x \in {p} |-> text]
NoFiles == [x \in {} |-> EmptyText]

MainFileSystems ==
    {NoFiles,
     OneFile(Here(Stem \o RND_SUFFIX), RndFile(BlankState)),
     OneFile(Here(Stem \o JSON_SUFFIX), MessageToJson(FlownState))}

\* Every content a file may hold.
Contents ==
    {MessageToJson(s) : s \in PhysicsStates}
        \cup {RndFile(s) : s \in PhysicsStates}
        \cup {EmptyText, Garbage}

\* The names of SpecLoad: a canonical one, and the others it is compared to.
TXT_SUFFIX == <<".", "t", "x", "t">>
CanonicalNames == {Stem \o JSON_SUFFIX}
OtherNames ==
    {Stem \o <<".", "J", "s", "o", "N">>, Stem \o TXT_SUFFIX, Stem,
     JSON_SUFFIX, Stem \o RND_SUFFIX, Stem \o <<".", "R", "N", "D">>}

\* Paths no file system of SpecLoad holds.
MissingPaths == {Here(<<"b">> \o JSON_SUFFIX), Here(<<"b">> \o RND_SUFFIX)}

\* Two files of the same content, one under a canonical name.
LoadFileSystems ==
    {[x \in {Here(c), Here(o)} |-> text] :
        c \in CanonicalNames, o \in OtherNames, text \in Contents}

\* The names of SpecSuffix: up to MaxNameParts pieces, one after the other.
NamePieces ==
    {Stem, <<Dot>>, JSON_SUFFIX, <<".", "J", "S", "O", "N">>, RND_SUFFIX,
     <<".", "b", "a", "k">>}

RECURSIVE NamesOf(_)
NamesOf(n) ==
    IF n = 0 THEN {<<>>}
    ELSE LET shorter == NamesOf(n - 1)
         IN  shorter \cup {s \o piece : s \in shorter, piece \in NamePieces}

SuffixPaths ==
    [parent : {".", "saves"}, name : NamesOf(MaxNameParts)]

SuffixFileSystems ==
    {NoFiles, OneFile(Here(Stem), Garbage),
     OneFile(Here(Stem \o JSON_SUFFIX), MessageToJson(FlownState))}

(***************************************************************************)
(* The state.                                                              *)
(***************************************************************************)
VARIABLES
    fs,             \* the files that exist, and their content
    handles,        \* the paths of the file objects that are open
    pc,             \* where the running call is; "idle" between calls
    op,             \* the function last called: "load", "write" or "none"
    arg,            \* the path it was called with
    file,           \* its variable file
    state,          \* the state write_savefile was called with
    data,           \* the text read, or the text to write
    physics_state,  \* load_savefile's variable physics_state
    outcome,        \* what the last call returned or raised
    warned,         \* whether the call logged the not-a-.json warning
    branch,         \* the decoder load_savefile chose
    decoded,        \* history: what the decoder returned, before the repair
    pre_fs,         \* history: the file system when the call began
    prev_load,      \* history: the load before this one, when it read
                    \* another file of the same content
    trip            \* history: a save, the load of its path, a second save

vars ==
    <<fs, handles, pc, op, arg, file, state, data, physics_state, outcome,
      warned, branch, decoded, pre_fs, prev_load, trip>>

NoLoad == [kind |-> "none"]
NoTrip == [stage |-> 0]

Start(files) ==
    /\ fs \in files
    /\ handles = {}
    /\ pc = "idle"
    /\ op = "none"
    /\ arg = NoPath
    /\ file = NoPath
    /\ state = NoState
    /\ data = EmptyText
    /\ physics_state = NoState
    /\ outcome = NoOutcome
    /\ warned = FALSE
    /\ branch = "none"
    /\ decoded = NoState
    /\ pre_fs = fs
    /\ prev_load = NoLoad
    /\ trip = NoTrip

Init == Start(MainFileSystems)
InitLoad == Start(LoadFileSystems)
InitSuffix == Start(SuffixFileSystems)

\* The file system with text at path p, created if it was not there.
WriteFile(files, p, text) ==
    [x \in DOMAIN files \cup {p} |-> IF x = p THEN text ELSE files[x]]

\* What the history keeps of a load that ended.
LoadRecord(result) ==
    [kind |-> "load", file |-> file, outcome |-> result, warned |-> warned]

(***************************************************************************)
(* load_savefile(file)                                                     *)
(***************************************************************************)
\* Lines 154-164: the log entry, the choice of the decoder, the warning.
CallLoad(p) ==
    /\ pc = "idle"
    /\ op' = "load"
    /\ arg' = p
    /\ file' = p
    /\ branch' = IF IsLegacyPath(p) THEN "legacy" ELSE "schema"
    /\ warned' = (~IsLegacyPath(p) /\ IsUnknownExtension(p))
    /\ pc' = IF IsLegacyPath(p) THEN "load_legacy" ELSE "load_open"
    /\ outcome' = NoOutcome
    /\ state' = NoState
    /\ data' = EmptyText
    /\ physics_state' = NoState
    /\ decoded' = NoState
    /\ pre_fs' = fs
    /\ prev_load' = IF /\ op = "load"
                       /\ file # p
                       /\ {file, p} \subseteq DOMAIN fs
                       /\ fs[file] = fs[p]
                    THEN LoadRecord(outcome)
                    ELSE NoLoad
    /\ trip' = IF trip.stage = 1 /\ p = trip.path THEN trip ELSE NoTrip
    /\ UNCHANGED <<fs, handles>>

\* The call ends by raising e.
LoadRaises(e) ==
    /\ outcome' = Raised(e)
    /\ pc' = "idle"
    /\ trip' = IF trip.stage = 1 THEN [trip EXCEPT !.stage = 2] ELSE NoTrip

\* A variant of LoadLegacy that returns what the legacy decoder returned.
LoadLegacyReturnsEarly ==
    /\ pc = "load_legacy"
    /\ LET r == clone_orbitv_state(fs, file)
       IN  \/ /\ r.kind = "raised"
              /\ LoadRaises(r.error)
              /\ UNCHANGED <<physics_state, decoded>>
           \/ /\ r.kind = "returned"
              /\ physics_state' = r.value
              /\ decoded' = r.value
              /\ outcome' = Ok(r.value)
              /\ pc' = "idle"
              /\ trip' = NoTrip
    /\ UNCHANGED <<fs, handles, op, arg, file, state, data, warned, branch,
                   pre_fs, prev_load>>

\* Lines 158-159: the legacy decoder.
LoadLegacy ==
    /\ pc = "load_legacy"
    /\ LET r == clone_orbitv_state(fs, file)
       IN  \/ /\ r.kind = "raised"
              /\ LoadRaises(r.error)
              /\ UNCHANGED <<physics_state, decoded>>
           \/ /\ r.kind = "returned"
              /\ physics_state' = r.value
              /\ decoded' = r.value
              /\ pc' = "load_repair"
              /\ UNCHANGED <<outcome, trip>>
    /\ UNCHANGED <<fs, handles, op, arg, file, state, data, warned, branch,
                   pre_fs, prev_load>>

\* Line 166: open(file, 'r').
LoadOpen ==
    /\ pc = "load_open"
    /\ \/ /\ file \notin DOMAIN fs
          /\ LoadRaises("FileNotFoundError")
          /\ UNCHANGED handles
       \/ /\ file \in DOMAIN fs
          /\ handles' = handles \cup {file}
          /\ pc' = "load_read"
          /\ UNCHANGED <<outcome, trip>>
    /\ UNCHANGED <<fs, op, arg, file, state, data, physics_state, warned,
                   branch, decoded, pre_fs, prev_load>>

\* Line 167 and the end of the with block: the file is read and closed; a
\* read that fails closes it too.
LoadRead ==
    /\ pc = "load_read"
    /\ handles' = handles \ {file}
    /\ \/ /\ data' = fs[file]
          /\ pc' = "load_parse"
          /\ UNCHANGED <<outcome, trip>>
       \/ /\ outcome' = Raised("OSError")
          /\ pc' = "idle"
          /\ trip' = NoTrip
          /\ UNCHANGED data
    /\ UNCHANGED <<fs, op, arg, file, state, physics_state, warned, branch,
                   decoded, pre_fs, prev_load>>

\* A variant of LoadParse that swallows the codec's error and goes on with
\* an empty state.
LoadParseLenient ==
    /\ pc = "load_parse"
    /\ LET r == Parse(data)
           got == IF r.kind = "raised" THEN ProtoDefaults ELSE r.value
       IN  /\ physics_state' = got
           /\ decoded' = got
           /\ pc' = "load_repair"
           /\ UNCHANGED <<outcome, trip>>
    /\ UNCHANGED <<fs, handles, op, arg, file, state, data, warned, branch,
                   pre_fs, prev_load>>

\* Lines 168-170: the schema codec.
LoadParse ==
    /\ pc = "load_parse"
    /\ LET r == Parse(data)
       IN  \/ /\ r.kind = "raised"
              /\ LoadRaises(r.error)
              /\ UNCHANGED <<physics_state, decoded>>
           \/ /\ r.kind = "returned"
              /\ physics_state' = r.value
              /\ decoded' = r.value
              /\ pc' = "load_repair"
              /\ UNCHANGED <<outcome, trip>>
    /\ UNCHANGED <<fs, handles, op, arg, file, state, data, warned, branch,
                   pre_fs, prev_load>>

\* Lines 172-180: the repair, and the return.
LoadRepair ==
    /\ pc = "load_repair"
    /\ physics_state' = Canonicalize(physics_state)
    /\ outcome' = Ok(physics_state')
    /\ pc' = "idle"
    /\ trip' = IF trip.stage = 1 THEN [trip EXCEPT !.stage = 2] ELSE NoTrip
    /\ UNCHANGED <<fs, handles, op, arg, file, state, data, warned, branch,
                   decoded, pre_fs, prev_load>>

(***************************************************************************)
(* write_savefile(state, file)                                             *)
(***************************************************************************)
\* Lines 187-190: the suffix, and the log entry.
CallWrite(s, p) ==
    /\ pc = "idle"
    /\ op' = "write"
    /\ arg' = p
    /\ file' = EnsureJsonSuffix(p)
    /\ state' = s
    /\ pc' = "write_open"
    /\ outcome' = NoOutcome
    /\ warned' = FALSE
    /\ branch' = "none"
    /\ data' = EmptyText
    /\ physics_state' = NoState
    /\ decoded' = NoState
    /\ pre_fs' = fs
    /\ prev_load' = NoLoad
    /\ trip' = IF /\ trip.stage = 2
                  /\ op = "load"
                  /\ outcome.kind = "returned"
                  /\ s = outcome.value
                  /\ p = trip.path
               THEN trip
               ELSE NoTrip
    /\ UNCHANGED <<fs, handles>>

\* Line 191: open(file, 'w') creates the file, or empties the one there.
WriteOpen ==
    /\ pc = "write_open"
    /\ \/ /\ outcome' = Raised("OSError")
          /\ pc' = "idle"
          /\ trip' = NoTrip
          /\ UNCHANGED <<fs, handles>>
       \/ /\ fs' = WriteFile(fs, file, EmptyText)
          /\ handles' = handles \cup {file}
          /\ pc' = "write_encode"
          /\ UNCHANGED <<outcome, trip>>
    /\ UNCHANGED <<op, arg, file, state, data, physics_state, warned, branch,
                   decoded, pre_fs, prev_load>>

\* A variant of WriteEncode with no with block: an encoder that raises
\* leaves the file open.
WriteEncodeLeaks ==
    /\ pc = "write_encode"
    /\ \/ /\ data' = MessageToJson(state)
          /\ pc' = "write_write"
          /\ UNCHANGED <<outcome, trip>>
       \/ /\ outcome' = Raised("EncodeError")
          /\ pc' = "idle"
          /\ trip' = NoTrip
          /\ UNCHANGED data
    /\ UNCHANGED <<fs, handles, op, arg, file, state, physics_state, warned,
                   branch, decoded, pre_fs, prev_load>>

\* Line 193: the argument of outfile.write is evaluated inside the with
\* block; an encoder that raises leaves the block, which closes the file.
WriteEncode ==
    /\ pc = "write_encode"
    /\ \/ /\ data' = MessageToJson(state)
          /\ pc' = "write_write"
          /\ UNCHANGED <<handles, outcome, trip>>
       \/ /\ outcome' = Raised("EncodeError")
          /\ handles' = handles \ {file}
          /\ pc' = "idle"
          /\ trip' = NoTrip
          /\ UNCHANGED data
    /\ UNCHANGED <<fs, op, arg, file, state, physics_state, warned, branch,
                   decoded, pre_fs, prev_load>>

\* Lines 192-194: the text is written, the file closed, the path returned; a
\* write that fails leaves the file empty or cut short.
WriteWrite ==
    /\ pc = "write_write"
    /\ handles' = handles \ {file}
    /\ pc' = "idle"
    /\ \/ /\ fs' = WriteFile(fs, file, data)
          /\ outcome' = Ok(file)
          /\ trip' = IF trip.stage = 2
                     THEN [trip EXCEPT !.stage = 3]
                     ELSE [stage |-> 1, state |-> state, path |-> file,
                           text |-> data]
       \/ /\ \E left \in {EmptyText, Garbage} : fs' = WriteFile(fs, file, left)
          /\ outcome' = Raised("OSError")
          /\ trip' = NoTrip
    /\ UNCHANGED <<op, arg, file, state, data, physics_state, warned, branch,
                   decoded, pre_fs, prev_load>>

(***************************************************************************)
(* The specifications.                                                     *)
(***************************************************************************)
\* Calls of both functions, one after the other, on a small file system.
Next ==
    \/ \E p \in MainPaths : CallLoad(p)
    \/ \E s \in MainStates, p \in MainPaths : CallWrite(s, p)
    \/ LoadLegacy
    \/ LoadOpen
    \/ LoadRead
    \/ LoadParse
    \/ LoadRepair
    \/ WriteOpen
    \/ WriteEncode
    \/ WriteWrite

Spec == Init /\ [][Next]_vars

\* Loads only, of two files that hold the same content, any content.
NextLoad ==
    \/ \E p \in DOMAIN fs \cup MissingPaths : CallLoad(p)
    \/ LoadLegacy
    \/ LoadOpen
    \/ LoadRead
    \/ LoadParse
    \/ LoadRepair

SpecLoad == InitLoad /\ [][NextLoad]_vars

\* One save, to any path.
NextSuffix ==
    \/ /\ op = "none"
       /\ \E s \in MainStates, p \in SuffixPaths : CallWrite(s, p)
    \/ WriteOpen
    \/ WriteEncode
    \/ WriteWrite

SpecSuffix == InitSuffix /\ [][NextSuffix]_vars

(***************************************************************************)
(* Properties.                                                             *)
(***************************************************************************)
\* A call of load_savefile has returned.
LoadReturned == op = "load" /\ pc = "idle" /\ outcome.kind = "returned"

\* A call of load_savefile has ended, and not by a failing read of the file.
LoadEnded ==
    /\ op = "load"
    /\ pc = "idle"
    /\ ~(outcome.kind = "raised" /\ outcome.error = "OSError")

\* The name ends in a dot and the letters j, s, o, n in either case, and has
\* something before that dot.
EndsInJson(name) ==
    LET n == Len(name)
    IN  /\ n > 5
        /\ name[n - 4] = "."
        /\ name[n - 3] \in {"j", "J"}
        /\ name[n - 2] \in {"s", "S"}
        /\ name[n - 1] \in {"o", "O"}
        /\ name[n] \in {"n", "N"}

\* The same for r, n, d.
EndsInRnd(name) ==
    LET n == Len(name)
    IN  /\ n > 4
        /\ name[n - 3] = "."
        /\ name[n - 2] \in {"r", "R"}
        /\ name[n - 1] \in {"n", "N"}
        /\ name[n] \in {"d", "D"}

\* No scalar field of s is unset.
IsCanonical(s) ==
    /\ s.time_acc # 0
    /\ s.reference # ""
    /\ s.target # ""
    /\ s.srb_time # 0

\* C1: every state load_savefile returns, from the legacy decoder or from the
\* schema codec, has a time_acc other than 0, a reference and a target other
\* than '', and an srb_time other than 0.
C1_LoadReturnsCanonical ==
    LoadReturned =>
        /\ outcome.value.time_acc # 0
        /\ outcome.value.reference # ""
        /\ outcome.value.target # ""
        /\ outcome.value.srb_time # 0

\* A file named .RND decoded to a state with every scalar unset, and the load
\* returned.
C1_Witness ==
    /\ LoadReturned
    /\ branch = "legacy"
    /\ file.name = Stem \o <<".", "R", "N", "D">>
    /\ ~IsCanonical(decoded)
    /\ decoded.time_acc = 0
    /\ decoded.srb_time = 0

\* C2: a scalar the decoder returned unset comes back from load_savefile as
\* its default -- time_acc 1, reference 'Earth', target 'AYSE', srb_time -1 --
\* each field on its own, and the entity list comes back as decoded.
C2_DefaultFilling ==
    LoadReturned =>
        /\ decoded.time_acc = 0 => outcome.value.time_acc = 1
        /\ decoded.reference = "" => outcome.value.reference = "Earth"
        /\ decoded.target = "" => outcome.value.target = "AYSE"
        /\ decoded.srb_time = 0 => outcome.value.srb_time = -1
        /\ outcome.value.entities = decoded.entities

\* Two scalars unset, two set, a non-empty entity list, and the load returned.
C2_Witness ==
    /\ LoadReturned
    /\ decoded.time_acc = 0
    /\ decoded.reference = SUN
    /\ decoded.target = ""
    /\ decoded.srb_time = SRB_BURNTIME
    /\ decoded.entities # <<>>

\* C3: a scalar the decoder returned set comes back from load_savefile as
\* decoded, whatever the other three are.
C3_ValidValuesKept ==
    LoadReturned =>
        /\ decoded.time_acc # 0 => outcome.value.time_acc = decoded.time_acc
        /\ decoded.reference # "" =>
               outcome.value.reference = decoded.reference
        /\ decoded.target # "" => outcome.value.target = decoded.target
        /\ decoded.srb_time # 0 => outcome.value.srb_time = decoded.srb_time

\* A spent timer and the largest time acceleration beside an unset reference.
C3_Witness ==
    /\ LoadReturned
    /\ decoded.srb_time = SRB_EMPTY
    /\ decoded.time_acc = 100000
    /\ decoded.reference = ""
    /\ outcome.value.srb_time = SRB_EMPTY

\* C4: the repair of load_savefile, applied to a state load_savefile returned,
\* changes nothing.
C4_RepairIdempotent ==
    LoadReturned => Canonicalize(outcome.value) = outcome.value

\* The load returned a state the repair had changed.
C4_Witness ==
    /\ LoadReturned
    /\ decoded.reference = ""
    /\ decoded.target = ""
    /\ outcome.value # decoded

\* The path C5 expects write_savefile to write for the path p.
ExpectedTarget(p) ==
    IF EndsInJson(p.name) THEN p
    ELSE [parent |-> p.parent, name |-> p.name \o <<".", "j", "s", "o", "n">>]

\* C5: write_savefile called with p writes and returns p when p's name ends in
\* .json in either case, and else the path of the same directory whose name
\* is p's name followed by .json; it creates or changes no other file.
C5_SuffixEnforcement ==
    op = "write" =>
        LET q == ExpectedTarget(arg)
        IN  /\ \A x \in (DOMAIN fs \cup DOMAIN pre_fs) \ {q} :
                   /\ x \in DOMAIN fs
                   /\ x \in DOMAIN pre_fs
                   /\ fs[x] = pre_fs[x]
            /\ (pc = "idle" /\ outcome.kind = "returned") =>
                   /\ outcome.value = q
                   /\ q \in DOMAIN fs
                   /\ fs[q] = MessageToJson(state)

\* A save to saves/a.bak returned saves/a.bak.json.
C5_Witness ==
    /\ op = "write"
    /\ pc = "idle"
    /\ outcome.kind = "returned"
    /\ arg = [parent |-> "saves", name |-> Stem \o <<".", "b", "a", "k">>]
    /\ outcome.value # arg
    /\ arg \notin DOMAIN fs

\* C6: a load of a file whose name ends neither in .rnd nor in .json, after a
\* load that returned of a .json file of the same content, logs the warning
\* and returns the same state; the load of the .json file logged none.
C6_UnknownExtension ==
    ( /\ LoadEnded
      /\ prev_load.kind = "load"
      /\ prev_load.outcome.kind = "returned"
      /\ EndsInJson(prev_load.file.name)
      /\ ~EndsInJson(file.name)
      /\ ~EndsInRnd(file.name)
      /\ fs[file] = fs[prev_load.file] )
    =>
        /\ outcome.kind = "returned"
        /\ outcome.value = prev_load.outcome.value
        /\ warned
        /\ ~prev_load.warned

\* a.txt was loaded after a.json, and the repair had something to fill.
C6_Witness ==
    /\ LoadReturned
    /\ prev_load.kind = "load"
    /\ prev_load.outcome.kind = "returned"
    /\ prev_load.file.name = Stem \o JSON_SUFFIX
    /\ file.name = Stem \o TXT_SUFFIX
    /\ warned
    /\ ~IsCanonical(decoded)

\* C7: a load changes no file; a load of a path that does not exist raises
\* FileNotFoundError before anything is read or decoded; an error of the
\* legacy decoder or of the schema codec is what the load raises.
C7_FailedLoad ==
    op = "load" =>
        /\ fs = pre_fs
        /\ (pc = "idle" /\ file \notin DOMAIN fs) =>
               /\ outcome = Raised("FileNotFoundError")
               /\ data = EmptyText
               /\ decoded = NoState
               /\ physics_state = NoState
        /\ (LoadEnded /\ file \in DOMAIN fs /\ branch = "legacy"
                /\ clone_orbitv_state(fs, file).kind = "raised") =>
               outcome = clone_orbitv_state(fs, file)
        /\ (LoadEnded /\ file \in DOMAIN fs /\ branch = "schema"
                /\ Parse(fs[file]).kind = "raised") =>
               outcome = Parse(fs[file])

\* A load of a file the schema codec rejects raised the codec's error.
C7_Witness ==
    /\ op = "load"
    /\ pc = "idle"
    /\ file \in DOMAIN fs
    /\ fs[file].kind = "rnd"
    /\ outcome = Raised("ParseError")

\* C8: a save whose encoder raises leaves the file that was at the target
\* path with the content it had.
C8_SaveKeepsFile ==
    ( /\ op = "write"
      /\ pc = "idle"
      /\ outcome = Raised("EncodeError")
      /\ file \in DOMAIN pre_fs )
    => (file \in DOMAIN fs /\ fs[file] = pre_fs[file])

\* C9: the load of the path a save of a canonical state returned takes the
\* schema codec, logs no warning and returns that state; a save of the loaded
\* state to that path leaves its content as it was.
C9_RoundTrip ==
    /\ ( /\ LoadEnded
         /\ trip.stage = 2
         /\ IsCanonical(trip.state) )
       =>
           /\ branch = "schema"
           /\ ~warned
           /\ outcome.kind = "returned"
           /\ outcome.value = trip.state
    /\ (trip.stage = 3 /\ IsCanonical(trip.state)) =>
           /\ trip.path \in DOMAIN fs
           /\ fs[trip.path] = trip.text

\* C10: at most one file is open at any time, the file of the running call,
\* and none between calls.
C10_HandlesScoped ==
    /\ Cardinality(handles) <= 1
    /\ handles \subseteq {file}
    /\ pc = "idle" => handles = {}

\* A save ended by the encoder's error, after the file had been opened.
C10_Witness ==
    /\ op = "write"
    /\ pc = "idle"
    /\ outcome = Raised("EncodeError")
    /\ file \in DOMAIN fs
    /\ handles = {}

====
